---- MODULE Spec2Model ----
(***************************************************************************)
(* The trading core of solana-telegram-bot (SolanaTrader): the single      *)
(* position slot `purchasedToken`, its `priceHistory`, the asynchronous    *)
(* handlePurchase / handleSell flows and the periodic monitor tick.        *)
(* Every `await` of the code is a suspension point: an action is the code  *)
(* that runs from the completion of one await to the start of the next;    *)
(* consecutive awaits that neither read nor write the program's state or   *)
(* the ledger (SOL balance, quote, swap build, blockhash, price) are taken *)
(* together with the await that follows them.                              *)
(* `returned` holds what the step just taken returned to its caller.       *)
(***************************************************************************)
EXTENDS Integers, Sequences, FiniteSets, TLC

\* ------------------------------------------------------------------ bounds
MaxPurchases == 2
MaxTicks == 2
MaxSells == 1
MaxPrice == 2
MaxTime == 20
TimeStep == 20
MaxSamples == 2
MaxBalance == 1
MaxConcurrent == 2
MaxWords == 2
MaxQuote == 3
MaxHistory == 3
MaxOutAmount == 2
MaxRuns == 2
MaxFunds == 2
MaxPushes == 4

\* ------------------------------------------------------- program constants
HistoryLimit == 720
LookbackShort == 5
LookbackMid == 10
LookbackLong == 20
ExpectedMinAmount == 0
QuickSellNum == 3
QuickSellDen == 2
FetchLimit == 2
REGEX_LENGTH_MIN == 32
REGEX_LENGTH_MAX == 44
SOLANA_ADDRESS_LENGTH_MIN == 32
SOLANA_ADDRESS_LENGTH_MAX == 44
PumpLength == 4
AmountToSpend == 1

Tokens == {"X", "Y"}

\* The invocations that may be suspended at the same time.
Purchasers == {<<"handlePurchase", i>> : i \in 1..MaxPurchases}
Tickers == {<<"tick", i>> : i \in 1..MaxTicks}
Sellers == {<<"handleSell", i>> : i \in 1..MaxSells}
SellProcs == Tickers \cup Sellers
Procs == Purchasers \cup SellProcs

VARIABLES
    purchasedToken,  \* the slot: NULL or the Position
    priceHistory,    \* sequence of [timestamp, price]
    now,             \* the last reading of the wall clock
    tokenBalance,    \* ledger: the wallet's balance of each token
    tx,              \* ledger: the transaction last broadcast by each invocation
    pc,              \* the await each invocation is suspended at
    local,           \* the local variables of each invocation
    returned,        \* the return made by the last step, if it made one
    opened           \* history: the tokens a Position was opened for so far

vars == <<purchasedToken, priceHistory, now, tokenBalance, tx, pc, local, returned,
          opened>>

\* The value of `opened` in the specifications that do not follow the history.
NotTracked == {"not tracked"}

\* `let purchasedToken = null`
NULL == [null |-> TRUE]

NoError == [thrown |-> FALSE, timeout |-> FALSE, signature |-> FALSE]
\* An error caught by a try block: whether its message is of the timeout class and
\* whether it carries the id of a broadcast transaction (error.signature).
Errors == [thrown : {TRUE}, timeout : BOOLEAN, signature : BOOLEAN]
\* Errors raised before anything was broadcast carry no transaction id.
ErrorsNoSignature == {e \in Errors : ~e.signature}
TypeError == [thrown |-> TRUE, timeout |-> FALSE, signature |-> FALSE]

NoVerification == [txDetails |-> "none", actualBalance |-> 0, success |-> FALSE]

NoTx == [status |-> "none", token |-> "-", delta |-> 0]

\* The locals of an invocation that has not started; `outAmount` and `quoteError`
\* are quoteData.outAmount and quoteData.error of handlePurchase, `balance` the
\* funding balance it read, `swapTransaction` whether the swap response had one.
\* `balanceBefore` is not a variable of the code: it remembers the ledger's
\* balance of the token at the moment the buy was broadcast.
Fresh == [tokenAddress |-> "-", initialPrice |-> 0, currentTokenBalance |-> 0,
          error |-> NoError, verification |-> NoVerification, current |-> FALSE,
          balanceBefore |-> 0, messageText |-> <<>>, outAmount |-> 0,
          balance |-> 0, quoteError |-> FALSE, swapTransaction |-> FALSE]

\* A return: who returned, the result, and the error caught, the verification
\* obtained and the output amount quoted on the way to it.
NoReturn == [proc |-> <<>>, result |-> "none", error |-> NoError,
             verification |-> NoVerification, lastMessages |-> <<>>,
             refetched |-> FALSE, outAmount |-> 0]

PurchaseSuccesses == {"ok", "ok_verified"}
PurchaseFailures == {"InsufficientFunds", "NoRoute", "BuildFailed", "OnChainFailure",
                     "PurchaseFailed"}
PurchaseInFlight == {"p_send", "p_confirm", "p_readback", "p_verify",
                     "p_verify_balance", "p_recovery_price"}
SellFailures == {"NoTokens", "NoRoute", "BuildFailed", "OnChainFailure", "SellFailed"}
SellInFlight == {"s_balance", "s_send", "s_confirm"}

\* The invocations that are suspended or have a transaction of open fate.
Busy == {q \in Procs : pc[q] # "idle" \/ tx[q].status = "pending"}

\* A start that would wait until no other invocation is suspended.
MayStartAlone(q) ==
    /\ \A r \in Procs : pc[r] = "idle"
    /\ tx[q].status # "pending"

\* An invocation starts in the lowest free place of its kind (the places are
\* interchangeable), once the fate of the transaction last sent from it is known.
MayStart(q) ==
    /\ pc[q] = "idle"
    /\ tx[q].status # "pending"
    /\ Cardinality(Busy) < MaxConcurrent
    /\ IF q[2] = 1 THEN TRUE ELSE pc[<<q[1], q[2] - 1>>] # "idle"

\* new Date() / Date.now(): the clock never runs backwards.
Clock == {t \in now..MaxTime : (t - now) % TimeStep = 0}

Init ==
    /\ purchasedToken = NULL
    /\ priceHistory = <<>>
    /\ now = 0
    /\ tokenBalance = [t \in Tokens |-> 0]
    /\ tx = [q \in Procs |-> NoTx]
    /\ pc = [q \in Procs |-> "idle"]
    /\ local = [q \in Procs |-> Fresh]
    /\ returned = NoReturn
    /\ opened = NotTracked

\* The wallet's balance of a token as getTokenBalance reports it: the ledger's
\* balance, or 0 when the RPC request fails (the error is caught inside).
GetTokenBalance(tokenAddress) == {tokenBalance[tokenAddress], 0}

\* getTokenPrice: a price, or the number 0 when no price data came back.
GetTokenPrice == 0..MaxPrice

\* A step that stays inside invocation q: q is suspended at `at` with locals `frame`.
Suspend(q, at, frame) ==
    /\ pc' = [pc EXCEPT ![q] = at]
    /\ local' = [local EXCEPT ![q] = frame]
    /\ returned' = NoReturn
    /\ UNCHANGED opened

\* Invocation q returns `res`; its locals are `frame` at that moment. A transaction
\* it sent and whose fate is still open stays with the ledger.
Return(q, res, frame) ==
    /\ pc' = [pc EXCEPT ![q] = "idle"]
    /\ local' = [local EXCEPT ![q] = Fresh]
    /\ returned' = [proc |-> q, result |-> res, error |-> frame.error,
                    verification |-> frame.verification, lastMessages |-> <<>>,
                    refetched |-> FALSE, outAmount |-> frame.outAmount]
    /\ tx' = [tx EXCEPT ![q] = IF tx[q].status = "pending" THEN tx[q] ELSE NoTx]
    /\ UNCHANGED opened

\* ------------------------------------------------------------ handlePurchase

\* A guard that would reject only a second purchase of the token already held.
AlreadyHoldingSameToken(tokenAddress) ==
    IF purchasedToken = NULL THEN FALSE ELSE purchasedToken.tokenAddress = tokenAddress

\* `if (purchasedToken)` at the entry of handlePurchase.
AlreadyHolding(tokenAddress) == purchasedToken # NULL

\* A `return { success: false, ... }` of handlePurchase.
FailPurchase(p, reason, frame) ==
    /\ Return(p, reason, frame)
    /\ UNCHANGED <<purchasedToken, priceHistory, now>>

\* isTimeoutError && error.signature
Recoverable(e) == e.timeout /\ e.signature

\* The catch block of handlePurchase up to its first await.
CatchPurchase(p, e) ==
    LET frame == [local[p] EXCEPT !.error = e]
    IN  IF Recoverable(e)
        THEN /\ Suspend(p, "p_verify", frame)
             /\ UNCHANGED <<purchasedToken, priceHistory, now, tx>>
        ELSE FailPurchase(p, "PurchaseFailed", frame)

\* A seeding that would keep the samples already in the history.
SeedAppended(history, sample) == Append(history, sample)

\* priceHistory = [{ timestamp: purchaseTime, price: initialPrice }]
SeedHistory(history, sample) == <<sample>>

\* The Position and the seed sample written by a successful purchase. A sell that
\* is in flight now was entered for an earlier Position.
RecordPurchase(p, res, frame, quantity, t) ==
    /\ purchasedToken' = [tokenAddress |-> frame.tokenAddress,
                          purchasePrice |-> frame.initialPrice,
                          tokenAmount |-> quantity]
    /\ priceHistory' = SeedHistory(priceHistory,
                                   [timestamp |-> t, price |-> frame.initialPrice])
    /\ now' = t
    /\ pc' = [pc EXCEPT ![p] = "idle"]
    /\ local' = [q \in Procs |-> IF q = p THEN Fresh
                                 ELSE [local[q] EXCEPT !.current = FALSE]]
    /\ returned' = [proc |-> p, result |-> res, error |-> frame.error,
                    verification |-> frame.verification, lastMessages |-> <<>>,
                    refetched |-> FALSE, outAmount |-> frame.outAmount]
    /\ tx' = [tx EXCEPT ![p] = IF tx[p].status = "pending" THEN tx[p] ELSE NoTx]
    /\ opened' = IF opened = NotTracked THEN opened
                  ELSE opened \cup {frame.tokenAddress}

\* handlePurchase from its entry to its first await (getBalance).
EnterPurchase(p, tokenAddress) ==
    /\ LET frame == [Fresh EXCEPT !.tokenAddress = tokenAddress]
       IN  IF AlreadyHolding(tokenAddress)
           THEN Return(p, "AlreadyHeld", frame)
           ELSE Suspend(p, "p_send", frame) /\ UNCHANGED tx
    /\ UNCHANGED <<purchasedToken, priceHistory, now, tokenBalance>>

HandlePurchaseCall(p, tokenAddress) ==
    /\ MayStart(p)
    /\ EnterPurchase(p, tokenAddress)

\* await getBalance (insufficient funds); await fetch(quote) (no route); await
\* fetch(swap), deserialize, sign (no swap transaction); await getLatestBlockhash;
\* await sendRawTransaction. Any of them may throw. The quote promises one of
\* `outAmounts`; what settles is the transaction's own amount.
PSendWith(p, outAmounts) ==
    /\ pc[p] = "p_send"
    /\ \/ \E e \in ErrorsNoSignature : CatchPurchase(p, e)
       \/ \E reason \in {"InsufficientFunds", "NoRoute", "BuildFailed"} :
             FailPurchase(p, reason, local[p])
       \/ /\ \E outAmount \in outAmounts :
                Suspend(p, "p_confirm",
                        [local[p] EXCEPT
                            !.balanceBefore = tokenBalance[local[p].tokenAddress],
                            !.outAmount = outAmount])
          /\ tx' = [tx EXCEPT ![p] = [status |-> "pending",
                                      token |-> local[p].tokenAddress, delta |-> 1]]
          /\ UNCHANGED <<purchasedToken, priceHistory, now>>
    /\ UNCHANGED tokenBalance

\* The purchase as the trader's other operations see it: the quote promises what
\* settles.
PSend(p) ==
    /\ pc[p] = "p_send"
    /\ PSendWith(p, {1})

\* await connection.confirmTransaction, then the check of confirmation.value.err
PConfirm(p) ==
    /\ pc[p] = "p_confirm"
    /\ \/ \E e \in Errors : CatchPurchase(p, e)
       \/ /\ tx[p].status = "err"
          /\ FailPurchase(p, "OnChainFailure", local[p])
       \/ /\ tx[p].status = "ok"
          /\ Suspend(p, "p_readback", local[p])
          /\ UNCHANGED <<purchasedToken, priceHistory, now, tx>>
    /\ UNCHANGED tokenBalance

\* A Position that would record the amount the quote promised.
QuotedQuantity(frame, actualBalance) == frame.outAmount

\* `tokenAmount: actualBalance, // Use actual balance instead of quote amount`
RecordedQuantity(frame, actualBalance) == actualBalance

\* const initialPrice = await this.getTokenPrice(tokenAddress);
\* const actualBalance = await this.getTokenBalance(tokenAddress); record; return
PReadback(p) ==
    /\ pc[p] = "p_readback"
    /\ \E price \in GetTokenPrice,
          actualBalance \in GetTokenBalance(local[p].tokenAddress), t \in Clock :
          RecordPurchase(p, "ok", [local[p] EXCEPT !.initialPrice = price],
                         RecordedQuantity(local[p], actualBalance), t)
    /\ UNCHANGED tokenBalance

\* A test of the returned object itself, which is always truthy.
VerificationReturned(v) == TRUE

\* `if (verification.success)` in the catch block of handlePurchase.
VerificationPassed(v) == v.success

\* The return of verifyTransactionSuccess and the branch of handlePurchase on it.
AfterVerification(p, v) ==
    LET frame == [local[p] EXCEPT !.verification = v]
    IN  IF VerificationPassed(v)
        THEN /\ Suspend(p, "p_recovery_price", frame)
             /\ UNCHANGED <<purchasedToken, priceHistory, now, tx>>
        ELSE FailPurchase(p, "PurchaseFailed", frame)

\* The 3 s grace period, then verifyTransactionSuccess: await getTransaction.
\* The lookup may throw or find nothing whatever the ledger holds.
PVerify(p) ==
    /\ pc[p] = "p_verify"
    /\ \/ \E seen \in {"threw", "null"} :
             AfterVerification(p, [txDetails |-> seen, actualBalance |-> 0,
                                   success |-> FALSE])
       \/ /\ tx[p].status = "err"
          /\ AfterVerification(p, [txDetails |-> "err", actualBalance |-> 0,
                                   success |-> FALSE])
       \/ /\ tx[p].status = "ok"
          /\ Suspend(p, "p_verify_balance",
                     [local[p] EXCEPT !.verification.txDetails = "ok"])
          /\ UNCHANGED <<purchasedToken, priceHistory, now, tx>>
    /\ UNCHANGED tokenBalance

\* `actualBalance > expectedMinAmount` in verifyTransactionSuccess
BalanceConfirmed(actualBalance) == actualBalance > ExpectedMinAmount

\* verifyTransactionSuccess: await getTokenBalance, then the balance check
PVerifyBalance(p) ==
    /\ pc[p] = "p_verify_balance"
    /\ \E actualBalance \in GetTokenBalance(local[p].tokenAddress) :
          AfterVerification(p, [txDetails |-> "ok", actualBalance |-> actualBalance,
                                success |-> BalanceConfirmed(actualBalance)])
    /\ UNCHANGED tokenBalance

\* The quantity a recovery would record without the balance read: nothing known.
UnverifiedQuantity(frame) == frame.currentTokenBalance

\* The quantity recorded by the recovery path: verification.actualBalance.
RecoveredQuantity(frame) == frame.verification.actualBalance

\* Recovery path: await getTokenPrice; record; return success.
PRecoveryPrice(p) ==
    /\ pc[p] = "p_recovery_price"
    /\ \E price \in GetTokenPrice, t \in Clock :
          LET frame == [local[p] EXCEPT !.initialPrice = price]
          IN  RecordPurchase(p, "ok_verified", frame, RecoveredQuantity(frame), t)
    /\ UNCHANGED tokenBalance

\* ---------------------------------------------------------------- the ledger

\* A broadcast transaction lands, crediting or debiting the wallet, or lands with
\* an on-chain error and changes nothing; one whose sender has returned may also
\* expire without landing.
Land(q) ==
    /\ tx[q].status = "pending"
    /\ \/ /\ tokenBalance[tx[q].token] + tx[q].delta \in 0..MaxBalance
          /\ tokenBalance' = [tokenBalance EXCEPT ![tx[q].token] = @ + tx[q].delta]
          /\ tx' = [tx EXCEPT ![q] = IF pc[q] = "idle" THEN NoTx
                                     ELSE [tx[q] EXCEPT !.status = "ok"]]
       \/ /\ tx' = [tx EXCEPT ![q] = IF pc[q] = "idle" THEN NoTx
                                     ELSE [tx[q] EXCEPT !.status = "err"]]
          /\ UNCHANGED tokenBalance
    /\ returned' = NoReturn
    /\ UNCHANGED <<purchasedToken, priceHistory, now, pc, local, opened>>

\* ----------------------------------------------------------------- handleSell

\* A caller that leaves the slot as handleSell left it.
CallerKeepsSlot(s, slot) == slot

\* What the caller of handleSell does with the slot once the sell has returned:
\* the monitor tick executes `purchasedToken = null`, a direct caller nothing.
AfterSell(s, slot) == IF s \in Tickers THEN NULL ELSE slot

\* A failing return that would also empty the slot, whoever the caller is.
FinishSellEmptying(s, reason, frame) ==
    /\ Return(s, reason, frame)
    /\ purchasedToken' = NULL
    /\ UNCHANGED <<priceHistory, now>>

\* A `return { success: false, ... }` of handleSell, and the caller's continuation.
FinishSell(s, reason, frame) ==
    /\ Return(s, reason, frame)
    /\ purchasedToken' = AfterSell(s, purchasedToken)
    /\ UNCHANGED <<priceHistory, now>>

\* The catch block of handleSell.
CatchSell(s, e) == FinishSell(s, "SellFailed", [local[s] EXCEPT !.error = e])

\* No guard at all.
NeverRejected(tokenAddress) == FALSE

\* A guard that would test only whether anything is held.
NothingPurchased(tokenAddress) == purchasedToken = NULL

\* `if (!purchasedToken || purchasedToken.tokenAddress !== tokenAddress)`
NotPurchased(tokenAddress) ==
    IF purchasedToken = NULL THEN TRUE ELSE purchasedToken.tokenAddress # tokenAddress

\* handleSell from its entry to its first await (getTokenBalance).
EnterSell(s, tokenAddress) ==
    LET frame == [Fresh EXCEPT !.tokenAddress = tokenAddress, !.current = TRUE]
    IN  IF NotPurchased(tokenAddress)
        THEN FinishSell(s, "NotHeld", [frame EXCEPT !.current = FALSE])
        ELSE /\ Suspend(s, "s_balance", frame)
             /\ UNCHANGED <<purchasedToken, priceHistory, now, tx>>

HandleSellCall(s, tokenAddress) ==
    /\ MayStart(s)
    /\ EnterSell(s, tokenAddress)
    /\ UNCHANGED tokenBalance

SellCurrentToken(s) ==
    /\ MayStart(s)
    /\ IF purchasedToken = NULL
       THEN /\ Return(s, "NoTokenHeld", Fresh)
            /\ UNCHANGED <<purchasedToken, priceHistory, now>>
       ELSE EnterSell(s, purchasedToken.tokenAddress)
    /\ UNCHANGED tokenBalance

\* const currentTokenBalance = await this.getTokenBalance(tokenAddress)
SBalance(s) ==
    /\ pc[s] = "s_balance"
    /\ \E currentTokenBalance \in GetTokenBalance(local[s].tokenAddress) :
          LET frame == [local[s] EXCEPT !.currentTokenBalance = currentTokenBalance]
          IN  IF currentTokenBalance = 0
              THEN FinishSell(s, "NoTokens", frame)
              ELSE /\ Suspend(s, "s_send", frame)
                   /\ UNCHANGED <<purchasedToken, priceHistory, now, tx>>
    /\ UNCHANGED tokenBalance

\* A sell of the quantity recorded in the Position at purchase time.
RecordedAmount(s) == IF purchasedToken = NULL THEN 0 ELSE purchasedToken.tokenAmount

\* `amount=${currentTokenBalance}` in the sell quote: all the tokens just read.
QuoteAmount(s) == local[s].currentTokenBalance

\* await fetch(quote) (no route); await fetch(swap), deserialize, sign (no swap
\* transaction); await getLatestBlockhash; await sendRawTransaction.
SSend(s) ==
    /\ pc[s] = "s_send"
    /\ \/ \E e \in ErrorsNoSignature : CatchSell(s, e)
       \/ \E reason \in {"NoRoute", "BuildFailed"} : FinishSell(s, reason, local[s])
       \/ /\ Suspend(s, "s_confirm", local[s])
          /\ tx' = [tx EXCEPT ![s] = [status |-> "pending",
                                      token |-> local[s].tokenAddress,
                                      delta |-> 0 - QuoteAmount(s)]]
          /\ UNCHANGED <<purchasedToken, priceHistory, now>>
    /\ UNCHANGED tokenBalance

\* await confirmTransaction; the check of confirmation.value.err; the profit
\* computation, which reads purchasedToken.solAmount and throws a TypeError (caught
\* by the same try) when the slot is already null; then the slot is cleared.
SConfirm(s) ==
    /\ pc[s] = "s_confirm"
    /\ \/ \E e \in Errors : CatchSell(s, e)
       \/ /\ tx[s].status = "err"
          /\ FinishSell(s, "OnChainFailure", local[s])
       \/ /\ tx[s].status = "ok"
          /\ IF purchasedToken = NULL
             THEN CatchSell(s, TypeError)
             ELSE /\ purchasedToken' = NULL
                  /\ priceHistory' = <<>>
                  /\ Return(s, "ok", local[s])
                  /\ UNCHANGED now
    /\ UNCHANGED tokenBalance

\* ------------------------------------------------------- the exit decision

Abs(x) == IF x < 0 THEN -x ELSE x

\* A lookup that would let a later sample win a tie (diff <= minDiff).
GetPriceAtTimeLatest(history, minutesAgo, t) ==
    IF Len(history) = 0 THEN 0
    ELSE LET diff(i) == IF history[i].timestamp >= t - minutesAgo
                        THEN history[i].timestamp - (t - minutesAgo)
                        ELSE (t - minutesAgo) - history[i].timestamp
             closest == CHOOSE i \in 1..Len(history) :
                           \A j \in 1..Len(history) :
                              diff(i) < diff(j) \/ (diff(i) = diff(j) /\ i >= j)
         IN  history[closest].price

\* getPriceAtTime: the price of the sample nearest to (t - minutesAgo), the
\* earliest one on a tie; 0 when the history is empty.
GetPriceAtTime(history, minutesAgo, t) ==
    IF Len(history) = 0 THEN 0
    ELSE LET diff(i) == Abs(history[i].timestamp - (t - minutesAgo))
             closest == CHOOSE i \in 1..Len(history) :
                           \A j \in 1..Len(history) :
                              diff(i) < diff(j) \/ (diff(i) = diff(j) /\ i <= j)
         IN  history[closest].price

\* currentPrice / reference as a fraction, 0 when the reference is not positive.
Rate(currentPrice, reference) ==
    IF reference > 0 THEN <<currentPrice, reference>> ELSE <<0, 1>>

RateLess(a, b) == a[1] * b[2] < b[1] * a[2]

\* A decision that would never sell on the trend.
DecideHold(slot, history, currentPrice, t) == "hold"

\* A decision that would sell as soon as the price fell below the sample before.
DecideOnLastDrop(slot, history, currentPrice, t) ==
    IF slot = NULL \/ Len(history) = 0 THEN "no data"
    ELSE IF Len(history) >= 2
    THEN IF currentPrice < history[Len(history) - 1].price
         THEN "10m (drop detected)" ELSE "hold"
    ELSE "hold"

\* decideSell: sellAt
DecideSell(slot, history, currentPrice, t) ==
    IF slot = NULL \/ Len(history) = 0 THEN "no data"
    ELSE LET r5 == Rate(currentPrice, GetPriceAtTime(history, LookbackShort, t))
             r10 == Rate(currentPrice, GetPriceAtTime(history, LookbackMid, t))
             r20 == Rate(currentPrice, GetPriceAtTime(history, LookbackLong, t))
         IN  IF RateLess(r10, r5) /\ r10[1] > 0 THEN "10m (drop detected)"
             ELSE IF RateLess(r20, r10) /\ r10[1] > 0 THEN "10m (pre-20m drop)"
             ELSE "hold"

\* Prices are multiples of a tenth of a dollar: the price k is the string
\* (k / 10).toFixed(10) that getTokenPrice returns. The pairs <<current, purchase>>
\* of prices up to 16 whose quotient is 1.5 exactly while the quotient of the two
\* IEEE-754 doubles, as `/` computes it, is 1.4999999999999998 (0.3 / 0.2,
\* 0.6 / 0.4, 1.2 / 0.8); on every other pair the two agree about `>= 1.5`.
QuotientRoundsBelow == {<<3, 2>>, <<6, 4>>, <<12, 8>>}

\* priceRatio >= 1.5, with priceRatio = currentPrice / purchasePrice in floating
\* point: a zero purchase price gives Infinity (or NaN for 0 / 0).
QuickSell(currentPrice, purchasePrice) ==
    IF purchasePrice = 0 THEN currentPrice > 0
    ELSE /\ QuickSellDen * currentPrice >= QuickSellNum * purchasePrice
         /\ <<currentPrice, purchasePrice>> \notin QuotientRoundsBelow

\* A truncation that would keep the oldest samples.
TruncateKeepingOldest(history) ==
    IF Len(history) > HistoryLimit THEN SubSeq(history, 1, HistoryLimit) ELSE history

\* priceHistory.slice(-720) once the history is longer than 720
Truncate(history) ==
    IF Len(history) > HistoryLimit
    THEN SubSeq(history, Len(history) - HistoryLimit + 1, Len(history))
    ELSE history

\* ------------------------------------------------------- startTokenMonitoring

\* A tick that would take every answer of getTokenPrice for a price.
AnyAnswerIsPrice(currentPrice) == FALSE

\* `if (currentPrice === 0) return;`: getTokenPrice returns the number 0 when the
\* quote has no data or the request throws.
NoPriceData(currentPrice) == currentPrice = 0

\* A tick that would run its body whatever the slot holds.
AlwaysSample == TRUE

\* A sampler that would give up once a tick has ended without a price or with
\* an exception.
HeldUnlessTickFailed ==
    purchasedToken # NULL /\ returned.result \notin {"no price", "tick error"}

\* `if (purchasedToken)` at the top of the interval callback.
PositionHeld == purchasedToken # NULL

\* The interval callback up to its first await: `if (purchasedToken)`.
TickFire(k) ==
    /\ MayStart(k)
    /\ IF PositionHeld
       THEN Suspend(k, "t_price", Fresh) /\ UNCHANGED tx
       ELSE Return(k, "no position", Fresh)
    /\ UNCHANGED <<purchasedToken, priceHistory, now, tokenBalance>>

\* The tick calls handleSell for the held token with `sellReason`, which passes
\* its guard (the token was just read from the slot) and awaits getTokenBalance.
TickSell(k, sellReason) ==
    /\ pc' = [pc EXCEPT ![k] = "s_balance"]
    /\ local' = [local EXCEPT ![k] =
                    [Fresh EXCEPT !.tokenAddress = purchasedToken.tokenAddress,
                                  !.current = TRUE]]
    /\ returned' = [NoReturn EXCEPT !.result = sellReason]
    /\ UNCHANGED <<purchasedToken, tx, opened>>

\* The callback after `await getTokenPrice` returned currentPrice, at time t: the
\* sample is appended, then the quick-sell and trend checks read purchasedToken
\* (a TypeError, caught by the callback's try, when the slot was emptied
\* meanwhile) and may enter handleSell.
TickBody(k, currentPrice, t) ==
    IF NoPriceData(currentPrice)
    THEN /\ Return(k, "no price", local[k])
         /\ UNCHANGED <<purchasedToken, priceHistory, now>>
    ELSE /\ Len(priceHistory) < MaxSamples
         /\ priceHistory' = Truncate(Append(priceHistory,
                               [timestamp |-> t, price |-> currentPrice]))
         /\ now' = t
         /\ IF purchasedToken = NULL
            THEN /\ Return(k, "tick error", [local[k] EXCEPT !.error = TypeError])
                 /\ UNCHANGED purchasedToken
            ELSE IF QuickSell(currentPrice, purchasedToken.purchasePrice)
            THEN TickSell(k, "Quick sell - 50% gain")
            ELSE IF DecideSell(purchasedToken, priceHistory', currentPrice, t) # "hold"
            THEN TickSell(k, "Strategic sell")
            ELSE /\ Return(k, "hold", local[k])
                 /\ UNCHANGED purchasedToken

TickPrice(k) ==
    /\ pc[k] = "t_price"
    /\ \E currentPrice \in GetTokenPrice, t \in Clock : TickBody(k, currentPrice, t)
    /\ UNCHANGED tokenBalance

Next ==
    \/ \E p \in Purchasers, t \in Tokens : HandlePurchaseCall(p, t)
    \/ \E p \in Purchasers : PSend(p)
    \/ \E p \in Purchasers : PConfirm(p)
    \/ \E p \in Purchasers : PReadback(p)
    \/ \E p \in Purchasers : PVerify(p)
    \/ \E p \in Purchasers : PVerifyBalance(p)
    \/ \E p \in Purchasers : PRecoveryPrice(p)
    \/ \E q \in Procs : Land(q)
    \/ \E s \in Sellers, t \in Tokens : HandleSellCall(s, t)
    \/ \E s \in Sellers : SellCurrentToken(s)
    \/ \E s \in SellProcs : SBalance(s)
    \/ \E s \in SellProcs : SSend(s)
    \/ \E s \in SellProcs : SConfirm(s)
    \/ \E k \in Tickers : TickFire(k)
    \/ \E k \in Tickers : TickPrice(k)

Spec == Init /\ [][Next]_vars

\* ------------------------------------------------------------ the message flow

\* A message text as the address extraction sees it: a sequence of words, each a
\* valid token address or a dexscreener.com link; <<>> is no text.
Words == Tokens \cup {"dexscreener.com"}
Texts == UNION {[1..n -> Words] : n \in 0..MaxWords}

\* `null` as the result of extractSolanaAddresses and of processMessage.
NoAddress == "null"

\* extractSolanaAddresses: null without text or with a dexscreener.com mention,
\* otherwise the first valid address of the text, null if there is none.
ExtractSolanaAddresses(messageText) ==
    IF Len(messageText) = 0 THEN NoAddress
    ELSE IF \E i \in 1..Len(messageText) : messageText[i] = "dexscreener.com"
    THEN NoAddress
    ELSE IF \E i \in 1..Len(messageText) : messageText[i] \in Tokens
    THEN LET first == CHOOSE i \in 1..Len(messageText) :
                         /\ messageText[i] \in Tokens
                         /\ \A j \in 1..(i - 1) : messageText[j] \notin Tokens
         IN  messageText[first]
    ELSE NoAddress

\* getLastMessage: the texts of the newest messages of the channel, at most
\* FetchLimit of them; <<>> stands for the null it returns when the client is not
\* started, the channel is not found, there are no messages or the fetch throws.
GetLastMessage == UNION {[1..n -> Texts] : n \in 0..FetchLimit}

\* No re-verification at all: the candidate is taken as it is.
ReverifySkipped(address, lastMessages) == address

\* A re-verification that would go on with the candidate when the channel could
\* not be read.
ReverifyOptimistic(address, lastMessages) ==
    IF Len(lastMessages) = 0 THEN address
    ELSE IF \E i \in 1..Len(lastMessages) :
               ExtractSolanaAddresses(lastMessages[i]) = address
    THEN address
    ELSE NoAddress

\* The end of processMessage: the candidate if the addresses extracted from the
\* re-fetched messages include it, else null.
Reverify(address, lastMessages) ==
    IF Len(lastMessages) = 0 THEN NoAddress
    ELSE IF \E i \in 1..Len(lastMessages) :
               ExtractSolanaAddresses(lastMessages[i]) = address
    THEN address
    ELSE NoAddress

\* A return of processMessage to the message handler, before any re-fetch or
\* after one.
Processed(h, result, refetched, lastMessages) ==
    /\ returned' = [NoReturn EXCEPT !.proc = h, !.result = result,
                                    !.refetched = refetched,
                                    !.lastMessages = lastMessages]
    /\ UNCHANGED opened

\* The listener hands a message to the handler, which calls processMessage: no
\* text or no address returns null at once, otherwise the quiet period starts.
OnMessage(h, messageText) ==
    /\ MayStart(h)
    /\ LET address == ExtractSolanaAddresses(messageText)
       IN  IF address = NoAddress
           THEN /\ Processed(h, NoAddress, FALSE, <<>>)
                /\ UNCHANGED <<pc, local>>
           ELSE Suspend(h, "h_quiet", [Fresh EXCEPT !.tokenAddress = address,
                                                    !.messageText = messageText])
    /\ UNCHANGED <<purchasedToken, priceHistory, now, tokenBalance, tx>>

\* await new Promise(resolve => setTimeout(resolve, 20000)), then getLastMessage
\* is called.
QuietPeriod(h) ==
    /\ pc[h] = "h_quiet"
    /\ Suspend(h, "h_fetch", local[h])
    /\ UNCHANGED <<purchasedToken, priceHistory, now, tokenBalance, tx>>

\* const lastMessages = await getLastMessage(chatTitle), and the return of
\* processMessage to the handler, which goes on only with an address.
Refetch(h) ==
    /\ pc[h] = "h_fetch"
    /\ \E lastMessages \in GetLastMessage :
          LET result == Reverify(local[h].tokenAddress, lastMessages)
          IN  /\ Processed(h, result, TRUE, lastMessages)
              /\ pc' = [pc EXCEPT ![h] = IF result = NoAddress THEN "idle"
                                         ELSE "h_purchase"]
              /\ local' = [local EXCEPT ![h] = IF result = NoAddress THEN Fresh
                                               ELSE [@ EXCEPT !.tokenAddress = result]]
    /\ UNCHANGED <<purchasedToken, priceHistory, now, tokenBalance, tx>>

\* `if (address !== null) await solanaTrader.handlePurchase(address, msg)`
HandOver(h) ==
    /\ pc[h] = "h_purchase"
    /\ EnterPurchase(h, local[h].tokenAddress)

\* The message flow up to the hand-over to handlePurchase.
NextMessages ==
    \/ \E h \in Purchasers, messageText \in Texts : OnMessage(h, messageText)
    \/ \E h \in Purchasers : QuietPeriod(h)
    \/ \E h \in Purchasers : Refetch(h)
    \/ \E h \in Purchasers : HandOver(h)

SpecMessages == Init /\ [][NextMessages]_vars

\* ------------------------------------------------- purchases with their history

\* The start of the process, with the history of opened tokens followed.
InitSeen ==
    /\ purchasedToken = NULL
    /\ priceHistory = <<>>
    /\ now = 0
    /\ tokenBalance = [t \in Tokens |-> 0]
    /\ tx = [q \in Procs |-> NoTx]
    /\ pc = [q \in Procs |-> "idle"]
    /\ local = [q \in Procs |-> Fresh]
    /\ returned = NoReturn
    /\ opened = {}

\* Purchases and directly called sells, without the monitor.
NextSeen ==
    \/ \E p \in Purchasers, t \in Tokens : HandlePurchaseCall(p, t)
    \/ \E p \in Purchasers : PSend(p)
    \/ \E p \in Purchasers : PConfirm(p)
    \/ \E p \in Purchasers : PReadback(p)
    \/ \E p \in Purchasers : PVerify(p)
    \/ \E p \in Purchasers : PVerifyBalance(p)
    \/ \E p \in Purchasers : PRecoveryPrice(p)
    \/ \E q \in Procs : Land(q)
    \/ \E s \in Sellers, t \in Tokens : HandleSellCall(s, t)
    \/ \E s \in Sellers : SellCurrentToken(s)
    \/ \E s \in Sellers : SBalance(s)
    \/ \E s \in Sellers : SSend(s)
    \/ \E s \in Sellers : SConfirm(s)

SpecSeen == InitSeen /\ [][NextSeen]_vars

\* ------------------------------------------------- the monitor on a wider grid

\* The prices getTokenPrice may return to the monitor here.
Quotes == 0..MaxQuote

\* A Position in X has just been opened at one of the prices, with its seed
\* sample; the wallet holds the tokens or not.
InitMonitor ==
    /\ purchasedToken \in [tokenAddress : {"X"}, purchasePrice : Quotes,
                           tokenAmount : 0..MaxBalance]
    /\ priceHistory = <<[timestamp |-> 0, price |-> purchasedToken.purchasePrice]>>
    /\ now = 0
    /\ tokenBalance = [t \in Tokens |-> IF t = "X" THEN purchasedToken.tokenAmount
                                        ELSE 0]
    /\ tx = [q \in Procs |-> NoTx]
    /\ pc = [q \in Procs |-> "idle"]
    /\ local = [q \in Procs |-> Fresh]
    /\ returned = NoReturn
    /\ opened = NotTracked

TickQuote(k) ==
    /\ pc[k] = "t_price"
    /\ \E currentPrice \in Quotes, t \in Clock : TickBody(k, currentPrice, t)
    /\ UNCHANGED tokenBalance

\* The monitor and the sells it starts.
NextMonitor ==
    \/ \E k \in Tickers : TickFire(k)
    \/ \E k \in Tickers : TickQuote(k)
    \/ \E k \in Tickers : SBalance(k)
    \/ \E k \in Tickers : SSend(k)
    \/ \E k \in Tickers : SConfirm(k)
    \/ \E k \in Tickers : Land(k)

SpecMonitor == InitMonitor /\ [][NextMonitor]_vars

\* ---------------------------------------------------- decideSell on its inputs

\* Minutes at which samples were taken, the last one being the time of the tick
\* that decides; prices in tenths of a dollar.
DecideTimes == {0, 10, 15, 16, 18, 20}
DecideNow == CHOOSE t \in DecideTimes : \A u \in DecideTimes : u <= t
DecidePrices == {9, 10, 12, 13}

\* The histories a deciding tick may find: the samples in the order they were
\* pushed, the seed sample alone possibly with the price 0 of a failed quote.
DecideHistories ==
    UNION {{h \in [1..n -> [timestamp : DecideTimes \ {DecideNow},
                            price : DecidePrices \cup {0}]] :
               /\ \A i \in 1..(n - 1) : h[i].timestamp < h[i + 1].timestamp
               /\ \A i \in 2..n : h[i].price # 0} : n \in 1..MaxHistory}

InitDecide ==
    /\ priceHistory \in DecideHistories
    /\ purchasedToken = [tokenAddress |-> "X",
                         purchasePrice |-> priceHistory[1].price,
                         tokenAmount |-> MaxBalance]
    /\ now = priceHistory[Len(priceHistory)].timestamp
    /\ tokenBalance = [t \in Tokens |-> 0]
    /\ tx = [q \in Procs |-> NoTx]
    /\ pc = [q \in Procs |-> "idle"]
    /\ local = [q \in Procs |-> Fresh]
    /\ returned = NoReturn
    /\ opened = NotTracked

\* The tick pushes the current sample and calls decideSell(currentPrice, ...).
ApplyDecideSell ==
    /\ returned = NoReturn
    /\ \E currentPrice \in DecidePrices :
          LET history == Append(priceHistory, [timestamp |-> DecideNow,
                                               price |-> currentPrice])
          IN  /\ priceHistory' = history
              /\ now' = DecideNow
              /\ returned' = [NoReturn EXCEPT
                                !.result = DecideSell(purchasedToken, history,
                                                      currentPrice, DecideNow)]
    /\ UNCHANGED <<purchasedToken, tokenBalance, tx, pc, local, opened>>

NextDecide == ApplyDecideSell

SpecDecide == InitDecide /\ [][NextDecide]_vars

\* ------------------------------------------- purchases under differing quotes

\* The output amounts a buy quote may promise.
QuotedAmounts == 1..MaxOutAmount

PSendQuoted(p) ==
    /\ pc[p] = "p_send"
    /\ PSendWith(p, QuotedAmounts)

\* handlePurchase alone, the quote promising the amount that settles or another.
NextOpen ==
    \/ \E p \in Purchasers, t \in Tokens : HandlePurchaseCall(p, t)
    \/ \E p \in Purchasers : PSendQuoted(p)
    \/ \E p \in Purchasers : PConfirm(p)
    \/ \E p \in Purchasers : PReadback(p)
    \/ \E p \in Purchasers : PVerify(p)
    \/ \E p \in Purchasers : PVerifyBalance(p)
    \/ \E p \in Purchasers : PRecoveryPrice(p)
    \/ \E p \in Purchasers : Land(p)

SpecOpen == Init /\ [][NextOpen]_vars

\* ------------------------------------------ the address extraction on its inputs

\* A message text by its characters: whether it mentions dexscreener.com, and its
\* maximal runs of base58 characters of at least the shortest length of interest
\* (shorter runs, like the words of a sentence, match nothing), in their order,
\* each with its length and whether its characters 45 to 48 spell "pump".
RunLengths == {31, 32, 44, 45, 48, 76}
Runs == [length : RunLengths, pump : BOOLEAN]
RunTexts == [dexscreener : BOOLEAN,
             runs : UNION {[1..n -> Runs] : n \in 0..MaxRuns}]

\* A substring of a text: `len` characters of run `run` from position `from`.
NoMatch == [run |-> 0, from |-> 0, len |-> 0]

\* The matches of /[1-9A-HJ-NP-Za-km-z]{32,44}(?:pump)?/g inside one run, left to
\* right: the quantifier is greedy and nothing anchors the pattern at the ends
\* of the run, so a run longer than 44 is cut after 44 characters (48 when "pump"
\* follows) and matching resumes behind the cut.
RECURSIVE RunMatches(_, _, _, _)
RunMatches(i, from, remaining, pump) ==
    IF remaining < REGEX_LENGTH_MIN THEN <<>>
    ELSE IF remaining <= REGEX_LENGTH_MAX
    THEN <<[run |-> i, from |-> from, len |-> remaining]>>
    ELSE LET n == IF pump /\ from = 1 /\ remaining >= REGEX_LENGTH_MAX + PumpLength
                  THEN REGEX_LENGTH_MAX + PumpLength
                  ELSE REGEX_LENGTH_MAX
         IN  <<[run |-> i, from |-> from, len |-> n]>>
                \o RunMatches(i, from + n, remaining - n, FALSE)

\* messageText.match(SOLANA_ADDRESS_REGEX_BASE58)
RECURSIVE Base58Matches(_, _)
Base58Matches(runs, i) ==
    IF i > Len(runs) THEN <<>>
    ELSE RunMatches(i, 1, runs[i].length, runs[i].pump) \o Base58Matches(runs, i + 1)

\* isValidSolanaAddress on a match: the length test; a match ending in "pump" is
\* then accepted as it is, any other is handed to bs58.decode, which accepts
\* every string of base58 characters.
IsValidSolanaAddress(address) ==
    /\ address.len >= SOLANA_ADDRESS_LENGTH_MIN
    /\ address.len <= SOLANA_ADDRESS_LENGTH_MAX

\* extractSolanaAddresses on the characters of a text.
ExtractFromText(text) ==
    IF text.dexscreener \/ Len(text.runs) = 0 THEN NoMatch
    ELSE LET base58Matches == Base58Matches(text.runs, 1)
             valid == {j \in 1..Len(base58Matches) :
                          IsValidSolanaAddress(base58Matches[j])}
         IN  IF valid = {} THEN NoMatch
             ELSE base58Matches[CHOOSE j \in valid : \A l \in valid : j <= l]

\* The handler that receives the text.
Extractor == <<"handlePurchase", 1>>

InitExtract ==
    /\ purchasedToken = NULL
    /\ priceHistory = <<>>
    /\ now = 0
    /\ tokenBalance = [t \in Tokens |-> 0]
    /\ tx = [q \in Procs |-> NoTx]
    /\ pc = [q \in Procs |-> "idle"]
    /\ \E text \in RunTexts :
          local = [q \in Procs |-> IF q = Extractor
                                   THEN [Fresh EXCEPT !.messageText = text]
                                   ELSE Fresh]
    /\ returned = NoReturn
    /\ opened = NotTracked

\* const address = extractSolanaAddresses(messageText)
ApplyExtract ==
    /\ returned = NoReturn
    /\ returned' = [NoReturn EXCEPT
                      !.proc = Extractor,
                      !.result = ExtractFromText(local[Extractor].messageText)]
    /\ UNCHANGED <<purchasedToken, priceHistory, now, tokenBalance, tx, pc, local,
                   opened>>

NextExtract == ApplyExtract

SpecExtract == InitExtract /\ [][NextExtract]_vars

\* ------------------------------------------- the purchase, one await at a time

\* A purchase that would not look at the funding balance.
FundsUnchecked(balance) == TRUE

\* The negation of `balance < amountToSpendLamports`.
SufficientFunds(balance) == balance >= AmountToSpend

\* The negation of `quoteData.error || !quoteData.outAmount`.
RouteFound(quoteError, outAmount) == ~quoteError /\ outAmount # 0

\* const balance = await this.connection.getBalance(...), and the balance check.
PBalance(p) ==
    /\ pc[p] = "p_send"
    /\ \/ \E e \in ErrorsNoSignature : CatchPurchase(p, e)
       \/ \E balance \in 0..MaxFunds :
             LET frame == [local[p] EXCEPT !.balance = balance]
             IN  IF SufficientFunds(balance)
                 THEN /\ Suspend(p, "p_quote", frame)
                      /\ UNCHANGED <<purchasedToken, priceHistory, now, tx>>
                 ELSE FailPurchase(p, "InsufficientFunds", frame)
    /\ UNCHANGED tokenBalance

\* const quoteData = await quoteResponse.json(), and the check of the quote.
PQuote(p) ==
    /\ pc[p] = "p_quote"
    /\ \/ \E e \in ErrorsNoSignature : CatchPurchase(p, e)
       \/ \E quoteError \in BOOLEAN, outAmount \in 0..MaxOutAmount :
             LET frame == [local[p] EXCEPT !.quoteError = quoteError,
                                           !.outAmount = outAmount]
             IN  IF RouteFound(quoteError, outAmount)
                 THEN /\ Suspend(p, "p_swap", frame)
                      /\ UNCHANGED <<purchasedToken, priceHistory, now, tx>>
                 ELSE FailPurchase(p, "NoRoute", frame)
    /\ UNCHANGED tokenBalance

\* const { swapTransaction } = await swapResponse.json(); deserialize and sign
\* (either may throw); then getLatestBlockhash is awaited.
PSwap(p) ==
    /\ pc[p] = "p_swap"
    /\ \/ \E e \in ErrorsNoSignature : CatchPurchase(p, e)
       \/ \E swapTransaction \in BOOLEAN :
             LET frame == [local[p] EXCEPT !.swapTransaction = swapTransaction]
             IN  IF swapTransaction
                 THEN /\ Suspend(p, "p_blockhash", frame)
                      /\ UNCHANGED <<purchasedToken, priceHistory, now, tx>>
                 ELSE FailPurchase(p, "BuildFailed", frame)
    /\ UNCHANGED tokenBalance

\* const latestBlockHash = await this.connection.getLatestBlockhash(); then
\* sendRawTransaction is called.
PBlockhash(p) ==
    /\ pc[p] = "p_blockhash"
    /\ \/ \E e \in ErrorsNoSignature : CatchPurchase(p, e)
       \/ /\ Suspend(p, "p_broadcast", local[p])
          /\ UNCHANGED <<purchasedToken, priceHistory, now, tx>>
    /\ UNCHANGED tokenBalance

\* const signature = await this.connection.sendRawTransaction(...); then
\* confirmTransaction is awaited.
PBroadcast(p) ==
    /\ pc[p] = "p_broadcast"
    /\ \/ \E e \in ErrorsNoSignature : CatchPurchase(p, e)
       \/ /\ Suspend(p, "p_confirm",
                     [local[p] EXCEPT
                         !.balanceBefore = tokenBalance[local[p].tokenAddress]])
          /\ tx' = [tx EXCEPT ![p] = [status |-> "pending",
                                      token |-> local[p].tokenAddress, delta |-> 1]]
          /\ UNCHANGED <<purchasedToken, priceHistory, now>>
    /\ UNCHANGED tokenBalance

NextSteps ==
    \/ \E p \in Purchasers, t \in Tokens : HandlePurchaseCall(p, t)
    \/ \E p \in Purchasers : PBalance(p)
    \/ \E p \in Purchasers : PQuote(p)
    \/ \E p \in Purchasers : PSwap(p)
    \/ \E p \in Purchasers : PBlockhash(p)
    \/ \E p \in Purchasers : PBroadcast(p)
    \/ \E p \in Purchasers : PConfirm(p)
    \/ \E p \in Purchasers : PReadback(p)
    \/ \E p \in Purchasers : PVerify(p)
    \/ \E p \in Purchasers : PVerifyBalance(p)
    \/ \E p \in Purchasers : PRecoveryPrice(p)
    \/ \E p \in Purchasers : Land(p)

SpecSteps == Init /\ [][NextSteps]_vars

\* ------------------------------------------------- the history at its limit

\* Prices, in tenths of a dollar, that never rise by half: a monitor that saw
\* them in rising order held at every tick.
PushPrices == {10, 11}

\* A history one short of the limit or at it, one sample per tick (the time is
\* counted in ticks here), the price rising at most once.
FullHistories ==
    {[i \in 1..n |-> [timestamp |-> i, price |-> IF i <= rise THEN 10 ELSE last]] :
        n \in {HistoryLimit - 1, HistoryLimit}, rise \in {1, 2, HistoryLimit},
        last \in PushPrices}

InitPush ==
    /\ priceHistory \in FullHistories
    /\ purchasedToken = [tokenAddress |-> "X", purchasePrice |-> 10,
                         tokenAmount |-> MaxBalance]
    /\ now = Len(priceHistory)
    /\ tokenBalance = [t \in Tokens |-> 0]
    /\ tx = [q \in Procs |-> NoTx]
    /\ pc = [q \in Procs |-> "idle"]
    /\ local = [q \in Procs |-> Fresh]
    /\ returned = NoReturn
    /\ opened = NotTracked

\* priceHistory.push({ timestamp: now, price: currentPrice }) and the truncation
\* that follows it.
ApplyPush ==
    /\ now < HistoryLimit + MaxPushes
    /\ \E currentPrice \in PushPrices :
          /\ priceHistory' = Truncate(Append(priceHistory,
                                [timestamp |-> now + 1, price |-> currentPrice]))
          /\ now' = now + 1
          /\ returned' = [NoReturn EXCEPT !.result = "pushed"]
    /\ UNCHANGED <<purchasedToken, tokenBalance, tx, pc, local, opened>>

NextPush == ApplyPush

SpecPush == InitPush /\ [][NextPush]_vars

\* ------------------------------------------------- getPriceAtTime on inputs

\* Minutes at which samples were taken and the minute of the lookup: the target
\* of the 10-minute lookup lies midway between two of them, that of the
\* 20-minute lookup before all of them.
LookupTimes == {0, 4, 6, 10, 14}
LookupNow == 15
LookupPrices == 1..MaxPrice
Lookbacks == {LookbackShort, LookbackMid, LookbackLong}

\* The histories a lookup may find: none, or samples in the order they were
\* pushed.
LookupHistories ==
    UNION {{h \in [1..n -> [timestamp : LookupTimes, price : LookupPrices]] :
               \A i \in 1..(n - 1) : h[i].timestamp < h[i + 1].timestamp} :
           n \in 0..MaxHistory}

InitLookup ==
    /\ priceHistory \in LookupHistories
    /\ purchasedToken = IF Len(priceHistory) = 0 THEN NULL
                        ELSE [tokenAddress |-> "X",
                              purchasePrice |-> priceHistory[1].price,
                              tokenAmount |-> MaxBalance]
    /\ now = LookupNow
    /\ tokenBalance = [t \in Tokens |-> 0]
    /\ tx = [q \in Procs |-> NoTx]
    /\ pc = [q \in Procs |-> "idle"]
    /\ local = [q \in Procs |-> Fresh]
    /\ returned = NoReturn
    /\ opened = NotTracked

\* getPriceAtTime(minutesAgo)
ApplyGetPriceAtTime ==
    /\ \E minutesAgo \in Lookbacks :
          returned' = [NoReturn EXCEPT
                         !.proc = <<"getPriceAtTime", minutesAgo>>,
                         !.result = GetPriceAtTime(priceHistory, minutesAgo, now)]
    /\ UNCHANGED <<purchasedToken, priceHistory, now, tokenBalance, tx, pc,
                   local, opened>>

NextLookup == ApplyGetPriceAtTime

SpecLookup == InitLookup /\ [][NextLookup]_vars

\* ------------------------------------------------------------------ claims

C2_SlotTransitions ==
    [][purchasedToken' # purchasedToken =>
          \/ /\ purchasedToken = NULL
             /\ returned'.proc \in Purchasers
             /\ returned'.result \in PurchaseSuccesses
          \/ /\ purchasedToken # NULL
             /\ purchasedToken' = NULL
             /\ returned'.proc \in SellProcs
             /\ returned'.result = "ok"
             /\ tx[returned'.proc].status = "ok"
             /\ tx[returned'.proc].token = purchasedToken.tokenAddress]_vars

\* C3: while one handlePurchase is in flight no other handlePurchase is past the
\* entry guard, so two buys are never broadcast for one opening of the slot.
C3_OnePurchaseInFlight ==
    \A p, q \in Purchasers :
       (p # q /\ pc[p] \in PurchaseInFlight) => pc[q] \notin PurchaseInFlight

\* C4: for one Position at most one sell transaction is broadcast, also when
\* monitor ticks overlap or sellCurrentToken runs during a monitor sell.
C4_OneSellBroadcast ==
    \A s, r \in SellProcs :
       (s # r /\ pc[s] = "s_confirm" /\ local[s].current)
          => ~(pc[r] = "s_confirm" /\ local[r].current)

\* C5: an open and a close are never both past their entry guards.
C5_OpenExcludesClose ==
    \A p \in Purchasers, s \in SellProcs :
       ~(pc[p] \in PurchaseInFlight /\ pc[s] \in SellInFlight)

\* C6: handlePurchase called while a Position is held, for whatever token,
\* returns 'Already holding token' at once: the Position, the price history and
\* the ledger are unchanged and nothing is requested or broadcast.
C6_AlreadyHeldRejected ==
    [][\A p \in Purchasers :
          ( /\ pc[p] = "idle"
            /\ purchasedToken # NULL
            /\ (pc'[p] # "idle" \/ returned'.proc = p) )
          => /\ returned' = [NoReturn EXCEPT !.proc = p, !.result = "AlreadyHeld"]
             /\ pc' = pc
             /\ UNCHANGED <<purchasedToken, priceHistory, tokenBalance, tx>>]_vars

C6_Witness ==
    /\ returned.result = "AlreadyHeld"
    /\ purchasedToken # NULL
    /\ Len(priceHistory) > 0

\* C7: every handlePurchase that returns failure (insufficient balance, no route,
\* no swap transaction, on-chain error, thrown error without successful recovery)
\* leaves the slot empty and the price history as it was.
C7_FailedPurchaseLeavesEmpty ==
    [][(returned'.proc \in Purchasers /\ returned'.result \in PurchaseFailures)
          => (purchasedToken' = NULL /\ priceHistory' = priceHistory)]_vars

\* C8: a buy whose confirmation wait raised a timeout-class error carrying the
\* transaction id, whose transaction was then found without on-chain error and
\* whose token balance was read as positive, returns success and records the
\* Position of that token with the balance read as quantity and a seed sample.
C8_TimeoutRecovery ==
    [][\A p \in Purchasers :
          ( /\ returned'.proc = p
            /\ Recoverable(returned'.error)
            /\ returned'.verification.txDetails = "ok"
            /\ returned'.verification.actualBalance > 0 )
          => /\ returned'.result = "ok_verified"
             /\ purchasedToken' # NULL
             /\ purchasedToken'.tokenAddress = local[p].tokenAddress
             /\ purchasedToken'.tokenAmount = returned'.verification.actualBalance
             /\ Len(priceHistory') = 1
             /\ priceHistory'[1].price = purchasedToken'.purchasePrice]_vars

C8_Witness ==
    /\ returned.result = "ok_verified"
    /\ Recoverable(returned.error)
    /\ purchasedToken # NULL
    /\ purchasedToken.tokenAmount = returned.verification.actualBalance
    /\ purchasedToken.tokenAmount > 0

\* C9: a sell whose confirmation wait raised a timeout-class error carrying the
\* transaction id, and whose transaction landed without error, is reported as a
\* successful close and empties the slot.
C9_SellTimeoutRecovery ==
    [][\A s \in SellProcs :
          ( /\ pc[s] = "s_confirm"
            /\ returned'.proc = s
            /\ Recoverable(returned'.error)
            /\ tx[s].status = "ok" )
          => (returned'.result = "ok" /\ purchasedToken' = NULL)]_vars

\* C10: a handlePurchase that caught an error returns success only if the error
\* was timeout-class with a transaction id and the verification found the
\* transaction without error and a positive balance; with any other error, or a
\* failed verification, it returns failure and records no Position.
C10_SuccessOnlyAfterVerification ==
    [][\A p \in Purchasers :
          (returned'.proc = p /\ returned'.error.thrown)
          => IF /\ Recoverable(returned'.error)
                /\ returned'.verification.txDetails = "ok"
                /\ returned'.verification.actualBalance > 0
             THEN returned'.result = "ok_verified"
             ELSE /\ returned'.result = "PurchaseFailed"
                  /\ UNCHANGED <<purchasedToken, priceHistory>>]_vars

C10_Witness ==
    /\ returned.proc \in Purchasers
    /\ returned.result = "PurchaseFailed"
    /\ Recoverable(returned.error)
    /\ returned.verification.txDetails \in {"err", "ok"}
    /\ purchasedToken = NULL

\* C11: the recovery succeeds only if the fetched transaction has no on-chain
\* error and the wallet's balance of the token is strictly greater than it was
\* before the buy; a balance that was already there does not count.
C11_RecoveryNeedsIncrease ==
    [][\A p \in Purchasers :
          (returned'.proc = p /\ returned'.result = "ok_verified")
          => /\ returned'.verification.txDetails = "ok"
             /\ returned'.verification.actualBalance > local[p].balanceBefore]_vars

\* The confirmation of q's transaction came back (nothing was thrown) and
\* reports an on-chain error, in the step being taken.
ConfirmedWithError(q) ==
    /\ pc[q] \in {"p_confirm", "s_confirm"}
    /\ tx[q].status = "err"
    /\ returned'.proc = q
    /\ ~returned'.error.thrown

Contains(messageText, address) ==
    \E i \in 1..Len(messageText) : messageText[i] = address

\* C13: processMessage returns the candidate if at least one of the re-fetched
\* messages contains that address, and null if none of them contains it.
C13_ReverifyByContent ==
    [][\A h \in Purchasers :
          (pc[h] = "h_fetch" /\ returned'.proc = h)
          => returned'.result =
                IF \E i \in 1..Len(returned'.lastMessages) :
                      Contains(returned'.lastMessages[i], local[h].tokenAddress)
                THEN local[h].tokenAddress
                ELSE NoAddress]_vars

\* C14: when the channel cannot be read during re-verification (getLastMessage
\* gives null), processMessage returns null without throwing and the handler
\* ends there: no purchase is attempted for that signal.
C14_FailsClosed ==
    [][\A h \in Purchasers :
          ( /\ pc[h] = "h_fetch"
            /\ returned'.proc = h
            /\ Len(returned'.lastMessages) = 0 )
          => /\ returned'.result = NoAddress
             /\ ~returned'.error.thrown
             /\ pc'[h] = "idle"
             /\ \A p \in Purchasers : pc'[p] \in PurchaseInFlight => pc'[p] = pc[p]
             /\ UNCHANGED <<purchasedToken, priceHistory, tokenBalance, tx>>]_vars

C14_Witness ==
    /\ returned.proc \in Purchasers
    /\ returned.refetched
    /\ Len(returned.lastMessages) = 0
    /\ returned.result = NoAddress
    /\ pc[returned.proc] = "idle"

\* C15: every handlePurchase(A) of the message flow comes after a completed
\* verification of A: the quiet period was waited for, the channel was re-fetched
\* after it and a re-fetched message had A; and a verification starts only from a
\* message that has text and an address in it.
C15_PurchaseAfterVerification ==
    [][\A h \in Purchasers :
          /\ (pc[h] # pc'[h] /\ pc'[h] \in PurchaseInFlight \cup {"idle"}
                /\ returned'.proc # h)
                => /\ pc[h] = "h_purchase"
                   /\ local'[h].tokenAddress = local[h].tokenAddress
          /\ (pc[h] # pc'[h] /\ pc'[h] = "h_purchase")
                => /\ pc[h] = "h_fetch"
                   /\ returned'.proc = h
                   /\ returned'.refetched
                   /\ returned'.result = local[h].tokenAddress
                   /\ local'[h].tokenAddress = local[h].tokenAddress
                   /\ \E i \in 1..Len(returned'.lastMessages) :
                         Contains(returned'.lastMessages[i], local[h].tokenAddress)
          /\ (pc[h] # pc'[h] /\ pc'[h] = "h_fetch")
                => /\ pc[h] = "h_quiet"
                   /\ local'[h].tokenAddress = local[h].tokenAddress
          /\ (pc[h] # pc'[h] /\ pc'[h] = "h_quiet")
                => /\ pc[h] = "idle"
                   /\ local'[h].tokenAddress \in Tokens
                   /\ Len(local'[h].messageText) > 0
                   /\ Contains(local'[h].messageText, local'[h].tokenAddress)
          /\ (returned'.proc = h /\ returned'.result = "AlreadyHeld")
                => pc[h] = "h_purchase"]_vars

C15_Witness ==
    \E h \in Purchasers :
       /\ pc[h] = "p_send"
       /\ local[h].tokenAddress \in Tokens
       /\ returned = NoReturn

\* A verification is pending in h: the quiet period or the re-fetch.
Verifying(h) == pc[h] \in {"h_quiet", "h_fetch"}

\* C16: a verification that is pending does not hold up another signal, which
\* starts its own verification at once; several verifications are pending
\* together, and a step of one leaves the others as they are: its outcome is the
\* candidate or null, by its own candidate and its own re-fetch.
C16_IndependentVerifications ==
    /\ [](\A g \in Purchasers :
            (Verifying(g) /\ \E h \in Purchasers : pc[h] = "idle")
            => \E h \in Purchasers :
                  ENABLED (OnMessage(h, <<"X">>) /\ pc'[h] = "h_quiet"))
    /\ [][\A h, g \in Purchasers :
            (h # g /\ Verifying(g) /\ (pc'[h] # pc[h] \/ returned'.proc = h))
            => /\ pc'[g] = pc[g]
               /\ local'[g] = local[g]
               /\ (returned'.refetched /\ returned'.result # NoAddress)
                     => /\ returned'.result = local[h].tokenAddress
                        /\ \E i \in 1..Len(returned'.lastMessages) :
                              Contains(returned'.lastMessages[i],
                                       local[h].tokenAddress)]_vars

C16_Witness ==
    \E h, g \in Purchasers :
       /\ h # g
       /\ pc[h] = "h_fetch"
       /\ pc[g] = "h_quiet"
       /\ local[h].tokenAddress # local[g].tokenAddress

\* The tokens listed under excluded_tokens in the configuration.
ExcludedTokens == {"Y"}

\* C17: handlePurchase(T) for a token T of the denylist always fails and never
\* gets to a quote or a broadcast.
C17_DenylistRespected ==
    \A p \in Purchasers :
       pc[p] \in PurchaseInFlight => local[p].tokenAddress \notin ExcludedTokens

\* C18: a token that was once purchased is never purchased again: once a
\* Position for T was opened, a handlePurchase(T) called later does not get past
\* its entry, so it broadcasts nothing.
C18_NoRepurchase ==
    [][\A p \in Purchasers :
          (pc[p] = "idle" /\ pc'[p] \in PurchaseInFlight)
          => local'[p].tokenAddress \notin opened]_vars

\* C19: handleSell(T) called while the slot is empty or holds another token
\* returns failure at once: the slot, the price history and the ledger are
\* unchanged and nothing is read, requested or broadcast; a directly called sell
\* gets past its entry only for the token that is held.
C19_NotHeldRejected ==
    [][\A s \in Sellers :
          (pc[s] = "idle" /\ (pc'[s] # "idle" \/ returned'.proc = s))
          => /\ pc'[s] # "idle"
                  => /\ pc'[s] = "s_balance"
                     /\ purchasedToken # NULL
                     /\ local'[s].tokenAddress = purchasedToken.tokenAddress
             /\ pc'[s] = "idle"
                  => /\ returned'.result \in {"NotHeld", "NoTokenHeld"}
                     /\ returned'.result = "NoTokenHeld" => purchasedToken = NULL
                     /\ pc' = pc
                     /\ UNCHANGED <<purchasedToken, priceHistory, tokenBalance, tx>>
             /\ purchasedToken = NULL => pc'[s] = "idle"]_vars

C19_Witness ==
    /\ returned.proc \in Sellers
    /\ returned.result = "NotHeld"
    /\ purchasedToken # NULL
    /\ Len(priceHistory) > 0

\* C20: once a handleSell has succeeded and no purchase was recorded since, a
\* further handleSell returns the not-held failure and broadcasts nothing. A
\* successful sell empties the slot; without the monitor the slot is emptied in
\* no other way, so an empty slot after a first purchase is a slot after a
\* successful sell.
C20_SecondSellNotHeld ==
    [][/\ (returned'.proc \in Sellers /\ returned'.result = "ok")
             => (purchasedToken' = NULL /\ priceHistory' = <<>>)
       /\ (purchasedToken # NULL /\ purchasedToken' = NULL)
             => (returned'.proc \in Sellers /\ returned'.result = "ok")
       /\ \A s \in Sellers :
             ( /\ pc[s] = "idle"
               /\ (pc'[s] # "idle" \/ returned'.proc = s)
               /\ opened # {}
               /\ purchasedToken = NULL )
             => /\ returned'.result \in {"NotHeld", "NoTokenHeld"}
                /\ pc' = pc
                /\ UNCHANGED <<purchasedToken, priceHistory, tokenBalance, tx>>]_vars

C20_Witness ==
    /\ returned.proc \in Sellers
    /\ returned.result = "NotHeld"
    /\ purchasedToken = NULL
    /\ opened # {}
    /\ \A q \in Procs : pc[q] = "idle"

\* C21: whenever no Position is held the price history is empty.
C21_EmptyHasNoHistory ==
    purchasedToken = NULL => priceHistory = <<>>

\* C22: a monitor tick whose price request yields no price appends no sample,
\* enters no sell and leaves the Position and the ledger as they are; every
\* sample a tick appends has a price above zero.
C22_NoPriceNoSample ==
    [][\A k \in Tickers :
          (pc[k] = "t_price" /\ pc'[k] # "t_price")
          => \/ /\ returned'.proc = k
                /\ returned'.result = "no price"
                /\ pc'[k] = "idle"
                /\ UNCHANGED <<purchasedToken, priceHistory, tokenBalance, tx>>
             \/ /\ Len(priceHistory') = Len(priceHistory) + 1
                /\ priceHistory'[Len(priceHistory')].price > 0
                /\ returned'.result # "no price"]_vars

C22_Witness ==
    /\ returned.proc \in Tickers
    /\ returned.result = "no price"
    /\ purchasedToken # NULL
    /\ Len(priceHistory) > 0

\* C23: a monitor tick that fires while no Position is held does nothing: it
\* requests no price, appends no sample, enters no sell and changes no state.
C23_TickWhileEmptyIsNoOp ==
    [][\A k \in Tickers :
          ( /\ pc[k] = "idle"
            /\ (pc'[k] # "idle" \/ returned'.proc = k)
            /\ purchasedToken = NULL )
          => /\ returned'.result = "no position"
             /\ pc' = pc
             /\ local' = local
             /\ UNCHANGED <<purchasedToken, priceHistory, now, tokenBalance, tx>>]_vars

C23_Witness ==
    /\ returned.proc \in Tickers
    /\ returned.result = "no position"
    /\ purchasedToken = NULL
    /\ Len(priceHistory) > 0

\* C24: on a tick during Held with an entry price above zero, the sell with the
\* quick-gain reason is entered if and only if the current price is at least 1.5
\* times the entry price, whatever the trend rules would say.
C24_QuickSellAtOneAndAHalf ==
    [][\A k \in Tickers :
          ( /\ pc[k] = "t_price"
            /\ pc'[k] # "t_price"
            /\ purchasedToken # NULL
            /\ Len(priceHistory') = Len(priceHistory) + 1 )
          => LET currentPrice == priceHistory'[Len(priceHistory')].price
                 entryPrice == purchasedToken.purchasePrice
             IN  entryPrice > 0
                 => ( (pc'[k] = "s_balance"
                          /\ returned'.result = "Quick sell - 50% gain")
                      <=> QuickSellDen * currentPrice >= QuickSellNum * entryPrice )
      ]_vars

C26_QuantityReadBack ==
    [][\A p \in Purchasers :
          (returned'.proc = p /\ returned'.result \in PurchaseSuccesses)
          => /\ purchasedToken' # NULL
             /\ returned'.result = "ok"
                   => purchasedToken'.tokenAmount
                         \in GetTokenBalance(purchasedToken'.tokenAddress)
             /\ returned'.result = "ok_verified"
                   => purchasedToken'.tokenAmount
                         = returned'.verification.actualBalance]_vars

\* A purchase succeeded although the quote promised more than settled.
C26_Witness ==
    /\ returned.proc \in Purchasers
    /\ returned.result = "ok"
    /\ purchasedToken # NULL
    /\ purchasedToken.tokenAmount = tokenBalance[purchasedToken.tokenAddress]
    /\ purchasedToken.tokenAmount > 0
    /\ returned.outAmount > purchasedToken.tokenAmount

\* C27: every sell is quoted and broadcast for the wallet's token balance read
\* at the start of that handleSell call, not for the quantity recorded in the
\* Position; when that balance is zero nothing is broadcast.
C27_SellsBalanceRead ==
    [][\A s \in SellProcs :
          /\ (pc[s] = "s_balance" /\ pc'[s] # "s_balance")
                => \/ /\ pc'[s] = "s_send"
                      /\ local'[s].currentTokenBalance
                            \in GetTokenBalance(local[s].tokenAddress)
                      /\ local'[s].currentTokenBalance > 0
                   \/ /\ pc'[s] = "idle"
                      /\ returned'.result = "NoTokens"
                      /\ 0 \in GetTokenBalance(local[s].tokenAddress)
                      /\ tx' = tx
          /\ (tx'[s].status = "pending" /\ tx[s].status # "pending")
                => /\ pc[s] = "s_send"
                   /\ local[s].currentTokenBalance > 0
                   /\ tx'[s].token = local[s].tokenAddress
                   /\ tx'[s].delta = 0 - local[s].currentTokenBalance]_vars

\* A sell is in flight for the balance read although the Position records none.
C27_Witness ==
    \E s \in SellProcs :
        /\ pc[s] = "s_confirm"
        /\ tx[s].status = "pending"
        /\ purchasedToken # NULL
        /\ purchasedToken.tokenAddress = tx[s].token
        /\ 0 - tx[s].delta # purchasedToken.tokenAmount

\* C28: whatever the earlier ticks ran into (no price, a failed sell, an
\* exception in the body), while a Position is held a tick that fires still
\* goes on to request a price; a tick left without a price ends there and then.
C28_SamplerSurvivesErrors ==
    /\ [](\A k \in Tickers :
             (purchasedToken # NULL /\ MayStart(k))
             => ENABLED (TickFire(k) /\ pc'[k] = "t_price"))
    /\ [][\A k \in Tickers :
             (returned'.proc = k /\ returned'.result \in {"no price", "tick error"})
             => (pc'[k] = "idle" /\ purchasedToken' = purchasedToken)]_vars

C28_Witness ==
    /\ returned.proc \in Tickers
    /\ returned.result = "no price"
    /\ purchasedToken # NULL
    /\ \E k \in Tickers : MayStart(k) /\ returned.proc # k

\* C29: neither state is terminal. While the slot is Empty a handlePurchase is
\* accepted; a Position that is held can still be closed successfully, for
\* which, once nothing is in flight, the wallet must hold the token (handleSell
\* gives up on a zero balance and only a landing transaction changes a balance).
C29_NeitherStateTerminal ==
    /\ []( ( /\ purchasedToken # NULL
             /\ \A q \in Procs : pc[q] = "idle" /\ tx[q].status # "pending" )
           => tokenBalance[purchasedToken.tokenAddress] > 0 )
    /\ [][\A p \in Purchasers :
             ( /\ purchasedToken = NULL
               /\ pc[p] = "idle"
               /\ (pc'[p] # "idle" \/ returned'.proc = p) )
             => pc'[p] = "p_send"]_vars

\* C30: extractSolanaAddresses returns null for every text none of whose runs of
\* base58 characters has a length from 32 to 44; a run that is shorter or
\* longer yields null, not a part of it.
C30_NoRunNoAddress ==
    (returned.proc = Extractor
        /\ \A i \in 1..Len(local[Extractor].messageText.runs) :
              LET length == local[Extractor].messageText.runs[i].length
              IN  length < SOLANA_ADDRESS_LENGTH_MIN
                     \/ length > SOLANA_ADDRESS_LENGTH_MAX)
    => returned.result = NoMatch

\* C31: a buy is broadcast only after the funding balance was read and found
\* sufficient, then a quote without error and with an output amount was
\* returned, then a swap transaction was returned; when one of them fails the
\* purchase returns at once and nothing is broadcast.
C31_StepsBeforeBroadcast ==
    [][\A p \in Purchasers :
          /\ (tx'[p].status = "pending" /\ tx[p].status # "pending")
                => /\ pc[p] = "p_broadcast"
                   /\ local[p].balance >= AmountToSpend
                   /\ ~local[p].quoteError /\ local[p].outAmount > 0
                   /\ local[p].swapTransaction
          /\ (pc'[p] = "p_quote" /\ pc[p] # "p_quote")
                => (pc[p] = "p_send" /\ local'[p].balance >= AmountToSpend)
          /\ (pc'[p] = "p_swap" /\ pc[p] # "p_swap")
                => /\ pc[p] = "p_quote"
                   /\ ~local'[p].quoteError /\ local'[p].outAmount > 0
          /\ (pc'[p] = "p_blockhash" /\ pc[p] # "p_blockhash")
                => (pc[p] = "p_swap" /\ local'[p].swapTransaction)
          /\ (pc'[p] = "p_broadcast" /\ pc[p] # "p_broadcast")
                => pc[p] = "p_blockhash"
          /\ ( /\ returned'.proc = p
               /\ returned'.result \in {"InsufficientFunds", "NoRoute", "BuildFailed"} )
                => /\ pc'[p] = "idle"
                   /\ tx' = tx
                   /\ tx[p].status = "none"
                   /\ UNCHANGED <<purchasedToken, priceHistory, tokenBalance>>]_vars

\* A buy is in flight that was paid from a balance equal to the amount.
C31_Witness ==
    \E p \in Purchasers :
        /\ pc[p] = "p_confirm"
        /\ tx[p].status = "pending"
        /\ local[p].balance = AmountToSpend
        /\ local[p].swapTransaction

\* C32: a tick appends its sample only if a Position is held at the moment of the
\* append; a tick whose price arrives after the Position was closed appends
\* nothing.
C32_AppendOnlyWhileHeld ==
    [][\A k \in Tickers :
          (pc[k] = "t_price" /\ priceHistory' # priceHistory)
          => purchasedToken # NULL]_vars

\* C33: the history never holds more than 720 samples; a push onto a full
\* history drops the oldest sample and keeps the others, newest last, in the
\* order they had.
C33_HistoryBounded ==
    /\ [](Len(priceHistory) <= HistoryLimit)
    /\ [][returned'.result = "pushed"
          => LET before == Len(priceHistory)
                 after == Len(priceHistory')
                 dropped == before + 1 - after
             IN  /\ after = IF before < HistoryLimit THEN before + 1 ELSE HistoryLimit
                 /\ priceHistory'[after].timestamp = now'
                 /\ \A i \in 1..(after - 1) :
                       priceHistory'[i] = priceHistory[i + dropped]]_vars

\* A push found the history full, and the sample that was the oldest is gone.
C33_Witness ==
    /\ returned.result = "pushed"
    /\ Len(priceHistory) = HistoryLimit
    /\ priceHistory[1].timestamp = 2
    /\ priceHistory[HistoryLimit].timestamp = HistoryLimit + 1

\* The distance of sample i from the target of the lookup that just returned.
LookupDistance(i) ==
    Abs(priceHistory[i].timestamp - (now - returned.proc[2]))

\* C34: getPriceAtTime(m) returns 0 on an empty history, and otherwise the price
\* of the first sample, in the whole history, whose distance from (now - m) is
\* the least one.
C34_NearestSampleEarliestOnTie ==
    (returned.proc # <<>> /\ returned.proc[1] = "getPriceAtTime")
    => IF Len(priceHistory) = 0 THEN returned.result = 0
       ELSE \E i \in 1..Len(priceHistory) :
               /\ \A j \in 1..Len(priceHistory) : LookupDistance(i) <= LookupDistance(j)
               /\ \A j \in 1..(i - 1) : LookupDistance(j) > LookupDistance(i)
               /\ returned.result = priceHistory[i].price

\* A lookup found two samples of different prices at the same least distance
\* and returned the earlier one's price.
C34_Witness ==
    /\ returned.proc # <<>>
    /\ returned.proc[1] = "getPriceAtTime"
    /\ \E i \in 1..Len(priceHistory) : \E j \in (i + 1)..Len(priceHistory) :
          /\ LookupDistance(i) = LookupDistance(j)
          /\ \A k \in 1..Len(priceHistory) : LookupDistance(i) <= LookupDistance(k)
          /\ priceHistory[i].price # priceHistory[j].price
          /\ returned.result = priceHistory[i].price

\* C35: right after a purchase returned success, directly or through the
\* recovery lookup, the history is the single seed sample, taken at the purchase
\* time at the entry price.
C35_OpenSeedsHistory ==
    (returned.proc \in Purchasers /\ returned.result \in PurchaseSuccesses)
    => /\ purchasedToken # NULL
       /\ priceHistory = <<[timestamp |-> now,
                            price |-> purchasedToken.purchasePrice]>>

\* A purchase recovered after a confirmation error has just opened a Position
\* later than the first moment of the run.
C35_Witness ==
    /\ returned.proc \in Purchasers
    /\ returned.result = "ok_verified"
    /\ purchasedToken # NULL
    /\ Len(priceHistory) = 1
    /\ priceHistory[1].timestamp = now
    /\ now > 0

\* C36: a handleSell entered for one token, when it completes, never empties a
\* slot that holds a Position for another token.
C36_StaleSellSparesNewPosition ==
    [][\A s \in SellProcs :
          ( /\ pc[s] \in SellInFlight
            /\ pc'[s] = "idle"
            /\ IF purchasedToken = NULL THEN FALSE
               ELSE purchasedToken.tokenAddress # local[s].tokenAddress )
          => purchasedToken' = purchasedToken]_vars

\* C37: a handlePurchase whose buy transaction landed without error does not
\* return before the Position for its token is recorded.
C37_LandedBuyIsRecorded ==
    [][\A p \in Purchasers :
          ( /\ pc[p] \in PurchaseInFlight
            /\ tx[p].status = "ok"
            /\ pc'[p] = "idle" )
          => IF purchasedToken' = NULL THEN FALSE
             ELSE purchasedToken'.tokenAddress = local[p].tokenAddress]_vars

\* C38: a tick that finds a Position whose entry price is 0 does not attempt the
\* quick-gain sell.
C38_NoQuickSellOnZeroEntry ==
    [][\A k \in Tickers :
          ( /\ pc[k] = "t_price"
            /\ IF purchasedToken = NULL THEN FALSE
               ELSE purchasedToken.purchasePrice = 0 )
          => ~(pc'[k] = "s_balance" /\ returned'.result = "Quick sell - 50% gain")]_vars

\* C39: no sample of the price history, the seed sample included, has price 0.
C39_NoZeroSample ==
    \A i \in 1..Len(priceHistory) : priceHistory[i].price # 0

\* C40: when decideSell runs on a history whose samples are all younger than 5
\* minutes, the three lookups return the price of the oldest sample and the
\* decision is hold.
C40_NoTrendSellBeforeFiveMinutes ==
    ( /\ returned # NoReturn
      /\ \A i \in 1..Len(priceHistory) :
            priceHistory[i].timestamp > now - LookbackShort )
    => /\ \A minutesAgo \in Lookbacks :
             GetPriceAtTime(priceHistory, minutesAgo, now) = priceHistory[1].price
       /\ returned.result = "hold"

\* decideSell held on three samples younger than 5 minutes although the price
\* fell from each sample to the next.
C40_Witness ==
    /\ returned.result = "hold"
    /\ Len(priceHistory) = 3
    /\ priceHistory[1].timestamp > now - LookbackShort
    /\ priceHistory[1].price > priceHistory[2].price
    /\ priceHistory[2].price > priceHistory[3].price

====
